---- MODULE Spec2Model ----
(***************************************************************************)
(* Model of backend/simple_server.py: the stream endpoint                  *)
(* (stream_agent_run and its generator generate_agent_stream) and the      *)
(* trade endpoint (execute_trade).                                         *)
(*                                                                         *)
(* Python values are tagged records [t, n, s, l]; a dict is a record with  *)
(* one field per key the code reads, the value Absent standing for a key   *)
(* that is not in the dict.  Floats are kept as integers n standing for    *)
(* n.0; the float-ness shows in str() only.                                *)
(***************************************************************************)
EXTENDS Integers, Sequences, FiniteSets, TLC

VARIABLES
    endpoint,       \* which handler this request is served by
    body,           \* raw body of the stream request
    status,         \* HTTP status of the response, 0 while none is sent
    request,        \* the AgentRequest built by stream_agent_run
    gen,            \* position of generate_agent_stream
    frames,         \* frames written to the response so far
    asked,          \* number of events requested from graph.astream
    graphCreated,   \* create_graph() has been called
    tokens,         \* the Token list built by the generator
    faultAt,        \* the statement whose exception reached the handler
    cancelledAt,    \* where the generator stood when the client disconnected
    treq,           \* the TradeExecutionRequest (its size)
    backend,        \* what Polymarket.execute_market_order does
    now,            \* int(time.time())
    tresp           \* what execute_trade returns

vars == <<endpoint, body, status, request, gen, frames, asked, graphCreated,
          tokens, faultAt, cancelledAt, treq, backend, now, tresp>>

streamVars == <<body, status, request, gen, frames, asked, graphCreated,
                tokens, faultAt, cancelledAt>>

tradeVars == <<treq, backend, now, tresp>>

(***************************************************************************)
(* Bounds                                                                  *)
(***************************************************************************)
MaxTokens == 2

MaxEvents == 2

(***************************************************************************)
(* Python values                                                           *)
(***************************************************************************)
Absent == [t |-> "absent", n |-> 0, s |-> "", l |-> <<>>]

PyNone == [t |-> "none", n |-> 0, s |-> "", l |-> <<>>]

PyStr(x) == [t |-> "str", n |-> 0, s |-> x, l |-> <<>>]

PyInt(k) == [t |-> "int", n |-> k, s |-> "", l |-> <<>>]

PyFloat(k) == [t |-> "float", n |-> k, s |-> "", l |-> <<>>]

PyBool(b) == [t |-> "bool", n |-> IF b THEN 1 ELSE 0, s |-> "", l |-> <<>>]

PyList(q) == [t |-> "list", n |-> 0, s |-> "", l |-> q]

PyObject == [t |-> "object", n |-> 0, s |-> "", l |-> <<>>]

\* d.get(k, default)
Get(d, k, default) == IF d[k].t = "absent" THEN default ELSE d[k]

\* d.get(k)
GetOrNone(d, k) == Get(d, k, PyNone)

\* bool(v), as `or` and `if` apply it
Truthy(v) ==
    CASE v.t = "none" -> FALSE
      [] v.t = "absent" -> FALSE
      [] v.t = "str" -> v.s # ""
      [] v.t \in {"int", "float", "bool"} -> v.n # 0
      [] v.t = "list" -> v.l # <<>>
      [] OTHER -> TRUE

\* a or b
PyOr(a, b) == IF Truthy(a) THEN a ELSE b

\* str(v)
ListRepr(q) == IF q = <<>> THEN "[]" ELSE "['" \o q[1] \o "']"

Str(v) ==
    CASE v.t = "none" -> "None"
      [] v.t = "str" -> v.s
      [] v.t = "int" -> ToString(v.n)
      [] v.t = "float" -> ToString(v.n) \o ".0"
      [] v.t = "bool" -> IF v.n = 1 THEN "True" ELSE "False"
      [] v.t = "list" -> ListRepr(v.l)
      [] OTHER -> "<object>"

\* the numbers this model writes in numeric strings
Numbers == {0, 5, 50}

\* float(v): the number, or the exception float() raises
Float(v) ==
    CASE v.t \in {"int", "float", "bool"} -> [ok |-> TRUE, n |-> v.n, exc |-> ""]
      [] v.t = "str" ->
            IF \E k \in Numbers : ToString(k) = v.s
            THEN [ok |-> TRUE, n |-> CHOOSE k \in Numbers : ToString(k) = v.s, exc |-> ""]
            ELSE [ok |-> FALSE, n |-> 0, exc |-> "ValueError"]
      [] OTHER -> [ok |-> FALSE, n |-> 0, exc |-> "TypeError"]

\* the exception classes that derive from Exception; CancelledError,
\* GeneratorExit and KeyboardInterrupt derive from BaseException only
ExceptionSubclasses ==
    {"UnicodeDecodeError", "JSONDecodeError", "AttributeError", "TypeError",
     "ValueError", "RuntimeError", "ValidationError", "HTTPException",
     "UnboundLocalError"}

AllExceptions ==
    ExceptionSubclasses \cup {"CancelledError", "GeneratorExit", "KeyboardInterrupt"}

(***************************************************************************)
(* Request bodies of the stream endpoint                                   *)
(***************************************************************************)
\* one element of "tokens": a JSON object with any of the three keys, or a
\* JSON value that is no object
TokenObj(id, outcome, price) ==
    [t |-> "obj", token_id |-> id, outcome |-> outcome, price |-> price]

TokenItems ==
    { TokenObj(Absent, Absent, Absent),
      TokenObj(PyStr("t1"), PyStr("YES"), PyFloat(50)),
      TokenObj(PyStr("t2"), Absent, PyStr("50")),
      TokenObj(Absent, PyStr("NO"), PyStr("abc")),
      TokenObj(PyStr("t1"), PyStr("YES"), PyNone),
      [t |-> "int", token_id |-> Absent, outcome |-> Absent, price |-> Absent] }

TokenLists == UNION { [1..k -> TokenItems] : k \in 0..MaxTokens }

TokensFields ==
    { [t |-> "absent", items |-> <<>>], [t |-> "str", items |-> <<>>] }
        \cup { [t |-> "list", items |-> q] : q \in TokenLists }

MarketIds == { Absent, PyStr("m1"), PyInt(7) }

FromJsValues == { Absent, PyBool(FALSE), PyStr("maybe") }

NoInput == [t |-> "absent", obj |-> <<>>]

\* a JSON object with the AgentRequest keys and no key 'input'
Payloads ==
    { [market_id |-> m, tokens |-> tk, from_js |-> f, input |-> NoInput] :
        m \in MarketIds, tk \in TokensFields, f \in FromJsValues }

\* {"input": P}
Wrap(P) ==
    [market_id |-> Absent, tokens |-> [t |-> "absent", items |-> <<>>],
     from_js |-> Absent, input |-> [t |-> "obj", obj |-> P]]

OtherPayload ==
    [market_id |-> PyStr("m2"), tokens |-> [t |-> "list", items |-> <<>>],
     from_js |-> Absent, input |-> NoInput]

\* payloads that also carry a key 'input', holding a number or an object
KeyedPayloads ==
    { [P EXCEPT !.input = i] :
        P \in { Q \in Payloads : Q.tokens.t # "list" \/ Len(Q.tokens.items) = 0 },
        i \in { [t |-> "int", obj |-> <<>>], [t |-> "obj", obj |-> OtherPayload] } }

JsonBody(top, obj) == [kind |-> "json", top |-> top, obj |-> obj]

Bodies ==
    { [kind |-> "badutf8", top |-> "none", obj |-> <<>>],
      [kind |-> "badjson", top |-> "none", obj |-> <<>>],
      JsonBody("list", <<>>) }
        \cup { JsonBody("obj", P) : P \in Payloads }
        \cup { JsonBody("obj", Wrap(P)) : P \in Payloads }
        \cup { JsonBody("obj", P) : P \in KeyedPayloads }
        \cup { JsonBody("obj", Wrap(P)) : P \in KeyedPayloads }

(***************************************************************************)
(* stream_agent_run: decoding, envelope selection, validation              *)
(***************************************************************************)
NoRequest == [market_id |-> "", tokens |-> <<>>, from_js |-> FALSE]

\* class AgentRequest(BaseModel): the fields that fail validation.  (For a
\* bool Pydantic also takes 0, 1 and strings such as "true"; FromJsValues
\* holds none of them.)
FieldErrors(d) ==
    (IF d.market_id.t # "str" THEN {"market_id"} ELSE {})
        \cup (IF d.tokens.t # "list"
                 \/ \E i \in 1..Len(d.tokens.items) : d.tokens.items[i].t # "obj"
              THEN {"tokens"} ELSE {})
        \cup (IF d.from_js.t \notin {"absent", "bool"} THEN {"from_js"} ELSE {})

\* AgentRequest(**d): the model built, or ValidationError with its errors
AgentRequest(d) ==
    IF FieldErrors(d) = {}
    THEN [ok |-> TRUE, errors |-> {},
          req |-> [market_id |-> d.market_id.s,
                   tokens |-> d.tokens.items,
                   from_js |-> Get(d, "from_js", PyBool(TRUE)).n = 1]]
    ELSE [ok |-> FALSE, errors |-> FieldErrors(d), req |-> NoRequest]

\* the payload picked when the key 'input' is never looked at
NeverUnwrap(o) == [t |-> "obj", obj |-> o]

\* lines 85-89: body_json['input'] if 'input' in body_json else body_json
SelectPayload(o) ==
    IF o.input.t # "absent" THEN o.input ELSE [t |-> "obj", obj |-> o]

Raised(exc, bound) ==
    [raised |-> TRUE, exc |-> exc, code |-> 0, jsonBound |-> bound,
     req |-> NoRequest, errors |-> {}]

\* the body of the outer try, lines 66-103: what it raises, or the request
TryBody(b) ==
    IF b.kind = "badutf8" THEN Raised("UnicodeDecodeError", FALSE)
    ELSE IF b.kind = "badjson" THEN Raised("JSONDecodeError", TRUE)
    ELSE IF b.top # "obj" THEN Raised("AttributeError", TRUE)
    ELSE LET rd == SelectPayload(b.obj) IN
         IF rd.t # "obj" THEN Raised("TypeError", TRUE)
         ELSE LET v == AgentRequest(rd.obj) IN
              IF v.ok
              THEN [raised |-> FALSE, exc |-> "", code |-> 0, jsonBound |-> TRUE,
                    req |-> v.req, errors |-> {}]
              ELSE \* except ValidationError: raise HTTPException(422), still
                   \* inside the outer try
                   [raised |-> TRUE, exc |-> "HTTPException", code |-> 422,
                    jsonBound |-> TRUE, req |-> NoRequest, errors |-> v.errors]

\* the except clauses of the outer try, lines 105-110: the status sent.
\* `json` is a local of stream_agent_run (import at line 76): naming it in
\* the first clause before that import has run raises UnboundLocalError,
\* which leaves the handler and is answered 500 by the framework.
OuterExcept(r) ==
    IF ~r.raised THEN 200
    ELSE IF ~r.jsonBound THEN 500
    ELSE IF r.exc = "JSONDecodeError" THEN 400
    ELSE IF r.exc \in ExceptionSubclasses THEN 500
    ELSE r.code

(***************************************************************************)
(* Agent events and their serialization                                    *)
(***************************************************************************)
\* an event is a tree: a scalar, a Pydantic model, a dict, a list, or an
\* object json cannot encode
Node(t, kids) == [t |-> t, kids |-> kids]

Scalar == Node("scalar", <<>>)

Opaque == Node("opaque", <<>>)

EventValues ==
    { Node("dict", <<Scalar>>),
      Node("dict", <<Node("list", <<Node("model", <<Scalar>>)>>)>>),
      Node("dict", <<Node("model", <<Opaque>>)>>) }

RECURSIVE model_dump(_)
\* obj.model_dump(): the model and the models under it become dicts
model_dump(obj) ==
    IF obj.t = "model"
    THEN Node("dict", [i \in 1..Len(obj.kids) |-> model_dump(obj.kids[i])])
    ELSE IF obj.t \in {"dict", "list"}
    THEN Node(obj.t, [i \in 1..Len(obj.kids) |-> model_dump(obj.kids[i])])
    ELSE obj

RECURSIVE serialize_for_json(_)
serialize_for_json(obj) ==
    IF obj.t = "model" THEN model_dump(obj)
    ELSE IF obj.t \in {"dict", "list"}
    THEN Node(obj.t, [i \in 1..Len(obj.kids) |-> serialize_for_json(obj.kids[i])])
    ELSE obj

RECURSIVE JsonEncodable(_)
\* json.dumps(obj) returns rather than raising TypeError
JsonEncodable(obj) ==
    /\ obj.t \in {"scalar", "dict", "list"}
    /\ \A i \in 1..Len(obj.kids) : JsonEncodable(obj.kids[i])

UpdatesFrame(data) == [event |-> "updates", data |-> data, error |-> ""]

ErrorFrame(exc) == [event |-> "error", data |-> Scalar, error |-> exc]

(***************************************************************************)
(* generate_agent_stream                                                   *)
(***************************************************************************)
\* Token(token_id=..., outcome=..., price=...)
Token(id, outcome, price) == [token_id |-> id, outcome |-> outcome, price |-> price]

\* lines 133-140: the Token list, or the exception float() raises
ConvertTokens(items) ==
    IF \A i \in 1..Len(items) : Float(Get(items[i], "price", PyFloat(0))).ok
    THEN [ok |-> TRUE, exc |-> "",
          tokens |-> [i \in 1..Len(items) |->
                        Token(Get(items[i], "token_id", PyStr("")).s,
                              Get(items[i], "outcome", PyStr("")).s,
                              Float(Get(items[i], "price", PyFloat(0))).n)]]
    ELSE [ok |-> FALSE, tokens |-> <<>>,
          exc |-> Float(Get(items[CHOOSE i \in 1..Len(items) :
                                    /\ ~Float(Get(items[i], "price", PyFloat(0))).ok
                                    /\ \A j \in 1..(i - 1) :
                                          Float(Get(items[j], "price", PyFloat(0))).ok],
                            "price", PyFloat(0))).exc]

\* a handler that catches everything, as a bare `except:` does
CatchesAll(exc) == exc \in AllExceptions

\* line 169: except Exception
Catches(exc) == exc \in ExceptionSubclasses

\* a handler inside the loop would go on to the next event
StaysInLoop(at) == IF at \in {"astream", "serialize"} THEN "sleeping" ELSE "done"

\* lines 169-175 end the generator: the except block is outside the loop
AfterHandler(at) == "done"

\* an exception exc raised at statement `at` inside the try of lines 128-167
Throw(exc, at) ==
    IF Catches(exc)
    THEN /\ frames' = Append(frames, ErrorFrame(exc))
         /\ faultAt' = at
         /\ gen' = AfterHandler(at)
    ELSE /\ frames' = frames
         /\ faultAt' = faultAt
         /\ gen' = "closed"

(***************************************************************************)
(* execute_trade                                                           *)
(***************************************************************************)
\* the keys execute_trade reads in a dict result
ResultDict(success, orderID, order_id, taking, making, st, hashes, errorMsg) ==
    [success |-> success, orderID |-> orderID, order_id |-> order_id,
     takingAmount |-> taking, makingAmount |-> making, status |-> st,
     transactionsHashes |-> hashes, errorMsg |-> errorMsg]

ResultDicts ==
    { ResultDict(su, oi, o2, ta, ma, st, th, em) :
        su \in {Absent, PyBool(TRUE), PyBool(FALSE), PyNone},
        oi \in {Absent, PyStr("abc123"), PyStr(""), PyNone},
        o2 \in {Absent, PyStr("ord9")},
        ta \in {Absent, PyFloat(5), PyNone},
        ma \in {Absent, PyInt(5), PyNone},
        st \in {Absent, PyStr("matched"), PyNone},
        th \in {Absent, PyList(<<"0xh">>), PyNone},
        em \in {Absent, PyStr("insufficient balance"), PyNone} }

NoDict == ResultDict(Absent, Absent, Absent, Absent, Absent, Absent, Absent, Absent)

\* the text of a string result that is the JSON encoding of an object; the
\* object is kept beside it
ObjectText == "{...}"

MockPrefix == "mock_market_order_id_"

\* what Polymarket().execute_market_order does: raise, or return a string,
\* a dict, or a value of another type
Backends ==
    { [kind |-> "raise", text |-> "backend down", value |-> PyNone, dict |-> NoDict] }
        \cup { [kind |-> "str", text |-> x, value |-> PyStr(x), dict |-> NoDict] :
                 x \in {MockPrefix \o "5", "0xabc", "50", "null"} }
        \cup { [kind |-> "str", text |-> ObjectText, value |-> PyStr(ObjectText),
                dict |-> d] : d \in ResultDicts }
        \cup { [kind |-> "dict", text |-> "", value |-> PyObject, dict |-> d] :
                 d \in ResultDicts }
        \cup { [kind |-> "other", text |-> "", value |-> v, dict |-> NoDict] :
                 v \in {PyNone, PyInt(5)} }

\* result.startswith("mock_market_order_id_")
StartsWithMockPrefix(x) == \E k \in Numbers : x = MockPrefix \o ToString(k)

\* json.loads(result.text): a dict, another JSON value, or JSONDecodeError
JsonLoads(b) ==
    IF b.text = ObjectText THEN [ok |-> TRUE, isdict |-> TRUE, dict |-> b.dict]
    ELSE IF (\E k \in Numbers : ToString(k) = b.text) \/ b.text = "null"
    THEN [ok |-> TRUE, isdict |-> FALSE, dict |-> NoDict]
    ELSE [ok |-> FALSE, isdict |-> FALSE, dict |-> NoDict]

Returned(d) == [sent |-> TRUE, raised |-> FALSE, dict |-> d]

Success(orderID, taking, making, st, hashes, message) ==
    [success |-> PyBool(TRUE), orderID |-> orderID, takingAmount |-> taking,
     makingAmount |-> making, status |-> st, transactionsHashes |-> hashes,
     errorMsg |-> Absent, message |-> PyStr(message)]

Failure(errorMsg, message) ==
    [success |-> PyBool(FALSE), orderID |-> Absent, takingAmount |-> Absent,
     makingAmount |-> Absent, status |-> Absent, transactionsHashes |-> Absent,
     errorMsg |-> errorMsg, message |-> PyStr(message)]

\* lines 230-238
MockResult(b, size) ==
    Returned(Success(b.value, PyStr(Str(PyFloat(size))), PyStr("0"),
                     PyStr("mock_execution"), PyList(<<>>),
                     "Trade executed successfully (mock mode)"))

\* lines 248-256
RawStringResult(b, size) ==
    Returned(Success(b.value, PyStr(Str(PyFloat(size))), PyStr("0"),
                     PyStr("completed"), PyList(<<>>),
                     "Trade executed successfully"))

\* lines 259-276
DictResult(d, size, t) ==
    IF Truthy(Get(d, "success", PyBool(TRUE)))
    THEN Returned(Success(
            PyOr(GetOrNone(d, "orderID"),
                 PyOr(GetOrNone(d, "order_id"), PyStr(Str(PyInt(t))))),
            PyStr(Str(Get(d, "takingAmount", PyFloat(size)))),
            PyStr(Str(Get(d, "makingAmount", PyInt(0)))),
            Get(d, "status", PyStr("completed")),
            Get(d, "transactionsHashes", PyList(<<>>)),
            "Trade executed successfully"))
    ELSE Returned(Failure(
            Get(d, "errorMsg", PyStr("Trade execution failed")),
            "Trade failed: " \o Str(Get(d, "errorMsg", PyStr("Unknown error")))))

\* lines 279-287
FallbackResult(size, t) ==
    Returned(Success(PyStr("order_" \o Str(PyInt(t))), PyStr(Str(PyFloat(size))),
                     PyStr("0"), PyStr("completed"), PyList(<<>>),
                     "Trade executed successfully"))

\* a handler that lets the exception out of execute_trade
Reraise(e) == [sent |-> TRUE, raised |-> TRUE, dict |-> Failure(Absent, "")]

\* lines 289-295
ExceptResult(e) ==
    Returned(Failure(PyStr(e), "Trade execution failed: " \o e))

\* lines 208-295
ExecuteTradeResult(b, size, t) ==
    IF b.kind = "raise" THEN ExceptResult(b.text)
    ELSE IF b.kind = "str"
    THEN IF StartsWithMockPrefix(b.text) THEN MockResult(b, size)
         ELSE IF ~JsonLoads(b).ok THEN RawStringResult(b, size)
         ELSE IF JsonLoads(b).isdict THEN DictResult(JsonLoads(b).dict, size, t)
         ELSE FallbackResult(size, t)
    ELSE IF b.kind = "dict" THEN DictResult(b.dict, size, t)
    ELSE FallbackResult(size, t)

\* what the agent computation may raise while an event is awaited
AgentExceptions == {"RuntimeError", "KeyboardInterrupt"}

NoTradeRequest == [size |-> 0]

NoBackend == [kind |-> "none", text |-> "", value |-> Absent, dict |-> NoDict]

NoResponse == [sent |-> FALSE, raised |-> FALSE, dict |-> Failure(Absent, "")]

Sizes == {50, 7}

Times == {1700000000}

InitStream ==
    /\ endpoint = "stream"
    /\ body \in Bodies
    /\ status = 0
    /\ request = NoRequest
    /\ gen = "none"
    /\ frames = <<>>
    /\ asked = 0
    /\ graphCreated = FALSE
    /\ tokens = <<>>
    /\ faultAt = "none"
    /\ cancelledAt = "none"
    /\ treq = NoTradeRequest
    /\ backend = NoBackend
    /\ now = 0
    /\ tresp = NoResponse

\* lines 62-110 and 177-185: the request is answered with an error status,
\* or with a StreamingResponse over a generator that has not started
StreamAgentRun ==
    /\ endpoint = "stream"
    /\ status = 0
    /\ LET r == TryBody(body) IN
         /\ status' = OuterExcept(r)
         /\ request' = r.req
         /\ gen' = IF OuterExcept(r) = 200 THEN "created" ELSE "none"
    /\ UNCHANGED <<endpoint, body, frames, asked, graphCreated, tokens, faultAt,
                   cancelledAt>>
    /\ UNCHANGED tradeVars

\* lines 128-154: from the first resumption of the generator to the first
\* await of graph.astream, or to the handler
GenStart ==
    /\ gen = "created"
    /\ \E graphFault \in BOOLEAN, stateFault \in BOOLEAN :
         IF graphFault
         THEN /\ Throw("RuntimeError", "create_graph")
              /\ UNCHANGED <<graphCreated, tokens, asked>>
         ELSE LET c == ConvertTokens(request.tokens) IN
              /\ graphCreated' = TRUE
              /\ IF ~c.ok
                 THEN /\ Throw(c.exc, "tokens")
                      /\ UNCHANGED <<tokens, asked>>
                 ELSE /\ tokens' = c.tokens
                      /\ IF stateFault
                         THEN /\ Throw("ValidationError", "State")
                              /\ UNCHANGED asked
                         ELSE /\ gen' = "awaiting"
                              /\ asked' = 1
                              /\ UNCHANGED <<frames, faultAt>>
    /\ UNCHANGED <<endpoint, body, status, request, cancelledAt>>
    /\ UNCHANGED tradeVars

\* lines 154-164: the agent produces an event; it is serialized and written
AgentYields ==
    /\ gen = "awaiting"
    /\ asked <= MaxEvents
    /\ \E event \in EventValues :
         LET serializable_event == serialize_for_json(event) IN
         IF JsonEncodable(serializable_event)
         THEN /\ frames' = Append(frames, UpdatesFrame(serializable_event))
              /\ gen' = "yielded"
              /\ UNCHANGED faultAt
         ELSE Throw("TypeError", "serialize")
    /\ UNCHANGED <<endpoint, body, status, request, asked, graphCreated, tokens,
                   cancelledAt>>
    /\ UNCHANGED tradeVars

\* line 154: graph.astream raises
AgentRaises ==
    /\ gen = "awaiting"
    /\ \E exc \in AgentExceptions : Throw(exc, "astream")
    /\ UNCHANGED <<endpoint, body, status, request, asked, graphCreated, tokens,
                   cancelledAt>>
    /\ UNCHANGED tradeVars

\* line 154: graph.astream is exhausted, the generator returns
AgentExhausted ==
    /\ gen = "awaiting"
    /\ gen' = "done"
    /\ UNCHANGED <<endpoint, body, status, request, frames, asked, graphCreated,
                   tokens, faultAt, cancelledAt>>
    /\ UNCHANGED tradeVars

\* lines 164-167: the response asks for the next chunk, the generator
\* resumes after its yield and sleeps
Resume ==
    /\ gen = "yielded"
    /\ gen' = "sleeping"
    /\ UNCHANGED <<endpoint, body, status, request, frames, asked, graphCreated,
                   tokens, faultAt, cancelledAt>>
    /\ UNCHANGED tradeVars

\* lines 167 and 154: the sleep ends and the next event is requested
SleepDone ==
    /\ gen = "sleeping"
    /\ gen' = "awaiting"
    /\ asked' = asked + 1
    /\ UNCHANGED <<endpoint, body, status, request, frames, graphCreated, tokens,
                   faultAt, cancelledAt>>
    /\ UNCHANGED tradeVars

\* the client disconnects: the task is cancelled at the await the generator
\* is suspended in (CancelledError), or the generator is closed at its yield
\* (GeneratorExit), or it is never started
ClientDisconnect ==
    /\ gen \in {"created", "awaiting", "yielded", "sleeping"}
    /\ cancelledAt' = gen
    /\ CASE gen = "created" -> gen' = "closed" /\ UNCHANGED <<frames, faultAt>>
         [] gen = "awaiting" -> Throw("CancelledError", "astream")
         [] gen = "sleeping" -> Throw("CancelledError", "sleep")
         [] gen = "yielded" -> Throw("GeneratorExit", "yield")
    /\ UNCHANGED <<endpoint, body, status, request, asked, graphCreated, tokens>>
    /\ UNCHANGED tradeVars

NextStream ==
    \/ StreamAgentRun
    \/ GenStart
    \/ AgentYields
    \/ AgentRaises
    \/ AgentExhausted
    \/ Resume
    \/ SleepDone
    \/ ClientDisconnect

SpecStream == InitStream /\ [][NextStream]_vars

InitTrade ==
    /\ endpoint = "trade"
    /\ body = [kind |-> "none", top |-> "none", obj |-> <<>>]
    /\ status = 0
    /\ request = NoRequest
    /\ gen = "none"
    /\ frames = <<>>
    /\ asked = 0
    /\ graphCreated = FALSE
    /\ tokens = <<>>
    /\ faultAt = "none"
    /\ cancelledAt = "none"
    /\ treq \in { [size |-> z] : z \in Sizes }
    /\ backend \in Backends
    /\ now \in Times
    /\ tresp = NoResponse

\* lines 205-295: the handler runs to its return
ExecuteTrade ==
    /\ endpoint = "trade"
    /\ ~tresp.sent
    /\ tresp' = ExecuteTradeResult(backend, treq.size, now)
    /\ status' = IF tresp'.raised THEN 500 ELSE 200
    /\ UNCHANGED <<endpoint, body, request, gen, frames, asked, graphCreated,
                   tokens, faultAt, cancelledAt, treq, backend, now>>

NextTrade == ExecuteTrade

SpecTrade == InitTrade /\ [][NextTrade]_vars

(***************************************************************************)
(* Properties                                                              *)
(***************************************************************************)
Responded == endpoint = "stream" /\ status # 0

ObjectBody == body.kind = "json" /\ body.top = "obj"

\* P satisfies the AgentRequest schema
ValidRunRequest(P) == FieldErrors(P) = {}

\* the request was answered with a stream whose request is that of P
AcceptedAs(P) == status = 200 /\ request = AgentRequest(P).req

\* C1: in every stream an 'error' frame, if there is one, is the last frame
\* written: frames are 'updates' frames followed by at most one 'error'
\* frame, whatever faults at create_graph, the token and State
\* construction, the awaited event or its serialization.
C1_ErrorFrameIsLast ==
    \A i \in 1..Len(frames) :
        /\ frames[i].event \in {"updates", "error"}
        /\ frames[i].event = "error" => i = Len(frames)

C1_Witness ==
    /\ gen = "done"
    /\ Len(frames) >= 2
    /\ frames[1].event = "updates"
    /\ frames[Len(frames)].event = "error"
    /\ faultAt = "serialize"

\* C2: a JSON body whose selected payload is an object that violates the
\* AgentRequest schema is answered 422, with no frame written and no graph
\* created.
C2_ValidationFailureIs422 ==
    (/\ Responded
     /\ ObjectBody
     /\ SelectPayload(body.obj).t = "obj"
     /\ ~ValidRunRequest(SelectPayload(body.obj).obj))
        => (status = 422 /\ frames = <<>> /\ ~graphCreated /\ gen = "none")

\* C3: a body that fails to decode, as UTF-8 or as JSON, is answered 400.
C3_DecodeFailureIs400 ==
    (Responded /\ body.kind \in {"badutf8", "badjson"}) => status = 400

\* C5 as claimed: a valid RunRequest object P yields the same request as the
\* body P and as the body {"input": P}, also when P has a key 'input'.
C5_EnvelopeShapesAgree ==
    (Responded /\ ObjectBody) =>
        /\ ValidRunRequest(body.obj) => AcceptedAs(body.obj)
        /\ (/\ body.obj.input.t = "obj"
            /\ body.obj = Wrap(body.obj.input.obj)
            /\ ValidRunRequest(body.obj.input.obj))
                => AcceptedAs(body.obj.input.obj)

\* C5 amended: a valid RunRequest object P yields its request as the body
\* {"input": P}, and as the body P when P has no key 'input'.
C5_EnvelopeShapesAgreeWithoutInputKey ==
    (Responded /\ ObjectBody) =>
        /\ (ValidRunRequest(body.obj) /\ body.obj.input.t = "absent")
                => AcceptedAs(body.obj)
        /\ (/\ body.obj.input.t = "obj"
            /\ body.obj = Wrap(body.obj.input.obj)
            /\ ValidRunRequest(body.obj.input.obj))
                => AcceptedAs(body.obj.input.obj)

C5_Witness ==
    /\ Responded
    /\ ObjectBody
    /\ body.obj.input.t = "obj"
    /\ body.obj = Wrap(body.obj.input.obj)
    /\ ValidRunRequest(body.obj.input.obj)
    /\ request.market_id = "m1"
    /\ Len(request.tokens) = MaxTokens

\* the Token the specification asks for: absent token_id and outcome are
\* "", an absent or non-numeric price is 0.0
CoercedToken(item) ==
    Token(Get(item, "token_id", PyStr("")).s,
          Get(item, "outcome", PyStr("")).s,
          IF Float(Get(item, "price", PyFloat(0))).ok
          THEN Float(Get(item, "price", PyFloat(0))).n
          ELSE 0)

\* C6: once the generator of an accepted request is past create_graph, every
\* token object has been coerced to a Token, and no coercion has ended the
\* stream with an 'error' frame.
C6_TokenCoercionNeverFails ==
    (status = 200 /\ graphCreated) =>
        /\ faultAt # "tokens"
        /\ tokens = [i \in 1..Len(request.tokens) |-> CoercedToken(request.tokens[i])]

\* C9: a step in which the client disconnects, and every step after it,
\* writes no frame and requests no event.
C9_NoFrameAfterDisconnect ==
    [][cancelledAt' # "none" => (frames' = frames /\ asked' = asked)]_vars

C9_Witness ==
    /\ cancelledAt = "sleeping"
    /\ gen = "closed"
    /\ Len(frames) >= 1
    /\ \A i \in 1..Len(frames) : frames[i].event = "updates"

Has(d, k) == d[k].t # "absent"

\* the backend result is, or parses to, a structured object
Structured ==
    \/ backend.kind = "dict"
    \/ backend.kind = "str" /\ ~StartsWithMockPrefix(backend.text)
                            /\ backend.text = ObjectText

TradeDone == endpoint = "trade" /\ tresp.sent

\* C4: execute_trade returns rather than raises, and what it returns has
\* the keys of a success (and no errorMsg) or those of a failure (and none
\* of the success keys).
C4_CanonicalResponse ==
    TradeDone =>
        /\ ~tresp.raised
        /\ tresp.dict.success.t = "bool"
        /\ Has(tresp.dict, "message")
        /\ tresp.dict.success = PyBool(TRUE) =>
              /\ \A k \in {"orderID", "takingAmount", "makingAmount", "status",
                           "transactionsHashes"} : Has(tresp.dict, k)
              /\ ~Has(tresp.dict, "errorMsg")
        /\ tresp.dict.success = PyBool(FALSE) =>
              /\ \A k \in {"orderID", "takingAmount", "makingAmount", "status",
                           "transactionsHashes"} : ~Has(tresp.dict, k)
              /\ Has(tresp.dict, "errorMsg")

C4_Witness ==
    /\ TradeDone
    /\ backend.kind = "raise"
    /\ tresp.dict.success = PyBool(FALSE)
    /\ tresp.dict.errorMsg = PyStr("backend down")

\* C7: for a structured result whose success is false, errorMsg is that of
\* the result, or "Trade execution failed" without one, and message is
\* "Trade failed: " followed by the errorMsg returned.
C7_FailureTextsAgree ==
    (TradeDone /\ Structured /\ backend.dict.success = PyBool(FALSE)) =>
        /\ tresp.dict.success = PyBool(FALSE)
        /\ tresp.dict.errorMsg
              = Get(backend.dict, "errorMsg", PyStr("Trade execution failed"))
        /\ tresp.dict.message
              = PyStr("Trade failed: " \o Str(tresp.dict.errorMsg))

\* C8: a string result without the mock prefix is normalized as the object
\* it parses to, or else is returned as the order id, never replaced by a
\* generated one.
C8_StringOrderIdKept ==
    (TradeDone /\ backend.kind = "str" /\ ~StartsWithMockPrefix(backend.text)) =>
        IF JsonLoads(backend).ok /\ JsonLoads(backend).isdict
        THEN tresp = DictResult(backend.dict, treq.size, now)
        ELSE tresp.dict = Success(PyStr(backend.text), PyStr(Str(PyFloat(treq.size))),
                                  PyStr("0"), PyStr("completed"), PyList(<<>>),
                                  "Trade executed successfully")

\* the result carries key k with a value
Supplied(d, k) == d[k].t \notin {"absent", "none"}

\* C10: for a structured result whose success is absent or true, the
\* response takes each field from the result when the result supplies it,
\* a null counting as absent, and the default otherwise.
C10_SuccessFieldsFromResult ==
    (TradeDone /\ Structured /\ backend.dict.success \in {Absent, PyBool(TRUE)}) =>
        /\ tresp.dict.success = PyBool(TRUE)
        /\ tresp.dict.orderID
              = PyOr(GetOrNone(backend.dict, "orderID"),
                     PyOr(GetOrNone(backend.dict, "order_id"), PyStr(ToString(now))))
        /\ tresp.dict.takingAmount
              = IF Supplied(backend.dict, "takingAmount")
                THEN PyStr(Str(backend.dict.takingAmount))
                ELSE PyStr(Str(PyFloat(treq.size)))
        /\ tresp.dict.makingAmount
              = IF Supplied(backend.dict, "makingAmount")
                THEN PyStr(Str(backend.dict.makingAmount))
                ELSE PyStr("0")
        /\ tresp.dict.status
              = IF Supplied(backend.dict, "status")
                THEN backend.dict.status ELSE PyStr("completed")
        /\ tresp.dict.transactionsHashes
              = IF Supplied(backend.dict, "transactionsHashes")
                THEN backend.dict.transactionsHashes ELSE PyList(<<>>)

====
